---- MODULE Spec2Model ----
(***************************************************************************)
(* Multi-file upload endpoint of Telegraph-Image (functions/upload.js):    *)
(* pre-validation, concurrency-limited dispatch in slices, per-file retry  *)
(* with backoff, deferred KV writes in groups, and the HTTP response; and   *)
(* the earlier, fully parallel handler with its inline KV write.           *)
(*                                                                         *)
(* Sizes are counted in KiB (JavaScript numbers are doubles and hold       *)
(* 10 GiB exactly; the unit keeps every constant inside TLC's integers).   *)
(* A file of the form is identified by its name; names are the positions   *)
(* 1..n of the parts in the form data, so they are distinct.               *)
(***************************************************************************)
EXTENDS Integers, Sequences, FiniteSets, TLC

\* ---------------------------------------------------------------- bounds
MaxFiles == 2

\* ------------------------------------------------------ program constants
KiB == 1
MiB == 1024 * KiB
GiB == 1024 * MiB
MaxFileSize == 10 * GiB          \* 10 * 1024 * 1024 * 1024 bytes
\* the default of maxRetries set one higher
maxRetries_Three == 2 + 1

maxRetries == 2
batchSize == 5
MaxDelay == 3000
BaseDelay == 1000
SlicePause == 100
KVPause == 50

\* sizes a part of the form may have: empty, small, exactly the ceiling,
\* just above the ceiling
FileSizes == {0, 1 * KiB, MaxFileSize, MaxFileSize + 1 * KiB}

Min(a, b) == IF a < b THEN a ELSE b

Pow2(n) == IF n <= 0 THEN 1 ELSE IF n = 1 THEN 2 ELSE IF n = 2 THEN 4 ELSE 8

Null == [null |-> TRUE]

\* the file lists a multipart form can carry (parts named file or file[])
FileLists ==
    UNION {[1..n -> FileSizes] : n \in 0..MaxFiles}

MkFiles(sz) == [i \in DOMAIN sz |-> [name |-> i, size |-> sz[i]]]

\* ------------------------------------------------------------- upstream
\* What one sendDocument call can produce.  status 0 stands for a fetch
\* that rejects (network failure): there is no response object at all.
\* ok is the ok field of the JSON envelope, branch the media key of result.
ResponseShapes ==
    { [status |-> 200, ok |-> TRUE,  branch |-> "document"],
      [status |-> 200, ok |-> FALSE, branch |-> "document"],
      [status |-> 400, ok |-> FALSE, branch |-> "none"],
      [status |-> 429, ok |-> FALSE, branch |-> "none"],
      [status |-> 503, ok |-> FALSE, branch |-> "none"],
      [status |-> 0,   ok |-> FALSE, branch |-> "none"] }

\* the upstream assigns a fresh file id to every stored document
UpstreamResponses(name, attempt) ==
    { [status |-> s.status, ok |-> s.ok, branch |-> s.branch,
       fileId |-> name * 10 + attempt] : s \in ResponseShapes }

\* response.ok of the fetch Response
ResponseOk(r) == r.status >= 200 /\ r.status <= 299

\* getFileInfo without the test of the envelope's ok field
getFileInfo_IgnoreOk(r) ==
    IF r.branch = "none" THEN Null
    ELSE IF r.branch = "sticker" THEN [fileId |-> r.fileId]
    ELSE IF r.branch = "document" THEN [fileId |-> r.fileId]
    ELSE IF r.branch = "video" THEN [fileId |-> r.fileId]
    ELSE Null

getFileInfo(r) ==
    IF ~r.ok \/ r.branch = "none" THEN Null
    ELSE IF r.branch = "sticker" THEN [fileId |-> r.fileId]
    ELSE IF r.branch = "document" THEN [fileId |-> r.fileId]
    ELSE IF r.branch = "video" THEN [fileId |-> r.fileId]
    ELSE Null

\* ------------------------------------------------------------ file names
\* The text of the name of the file at each position of the form, as a
\* sequence of characters: one dotted name with an upper-case extension,
\* one name with two dots, one name without a dot.
NameText(name) ==
    IF name = 1 THEN <<"a", ".", "J">>
    ELSE IF name = 2 THEN <<"b", ".", "t", ".", "G">>
    ELSE IF name = 3 THEN <<"R">>
    ELSE <<"c", ".", "p">>

\* String.prototype.toLowerCase, on the characters names are made of
ToLowerChar(c) ==
    IF c = "J" THEN "j" ELSE IF c = "G" THEN "g" ELSE IF c = "R" THEN "r" ELSE c

\* fileName.split('.').pop(): the characters after the last dot, the whole
\* name when it has no dot
RECURSIVE SplitPop(_)
SplitPop(text) ==
    IF \A i \in DOMAIN text : text[i] # "."
    THEN text
    ELSE SplitPop(Tail(text))

\* the extension with toLowerCase left out
FileExtension_KeepCase(text) == SplitPop(text)

\* fileName.split('.').pop().toLowerCase()
FileExtension(text) ==
    [i \in DOMAIN SplitPop(text) |-> ToLowerChar(SplitPop(text)[i])]

\* `${fileInfo.fileId}.${fileExtension}`
FileKey(fileId, file) ==
    [fileId |-> fileId, ext |-> FileExtension(NameText(file.name))]

\* one run of processFileUpload on the response r of its fetch:
\* either it throws (threw, error) or it returns the success record
processFileUpload(file, r) ==
    IF r.status = 0
    THEN [threw |-> TRUE, error |-> "fetch failed", value |-> Null]
    ELSE IF ~ResponseOk(r)
    THEN [threw |-> TRUE, error |-> "Telegram API error", value |-> Null]
    ELSE IF getFileInfo(r) = Null
    THEN [threw |-> TRUE, error |-> "Failed to get file info", value |-> Null]
    ELSE [threw |-> FALSE, error |-> "",
          value |-> [success |-> TRUE,
                     data |-> [src |-> FileKey(getFileInfo(r).fileId, file),
                               fileName |-> file.name],
                     kvOperation |-> [key |-> FileKey(getFileInfo(r).fileId, file),
                                      fileName |-> file.name,
                                      fileSize |-> file.size]]]

RetryDelay(attempt) == Min(BaseDelay * Pow2(attempt - 1), MaxDelay)

\* the retry loop rethrowing the error of the last attempt
AttemptStep_Rethrow(file, attempt, res) ==
    IF ~res.threw
    THEN [kind |-> "return", value |-> res.value, delay |-> 0]
    ELSE IF attempt = maxRetries
    THEN [kind |-> "throw",
          value |-> [success |-> FALSE, error |-> res.error,
                     fileName |-> file.name],
          delay |-> 0]
    ELSE [kind |-> "retry", value |-> Null, delay |-> RetryDelay(attempt)]

\* the retry loop waiting before it tests for the last attempt
AttemptStep_DelayLast(file, attempt, res) ==
    IF ~res.threw
    THEN [kind |-> "return", value |-> res.value, delay |-> 0]
    ELSE IF attempt = maxRetries
    THEN [kind |-> "return",
          value |-> [success |-> FALSE, error |-> res.error,
                     fileName |-> file.name],
          delay |-> RetryDelay(attempt)]
    ELSE [kind |-> "retry", value |-> Null, delay |-> RetryDelay(attempt)]

\* what processFileUploadWithRetry does with the result res of attempt
\* number attempt: return a record, or wait and go round the loop again
AttemptStep(file, attempt, res) ==
    IF ~res.threw
    THEN [kind |-> "return", value |-> res.value, delay |-> 0]
    ELSE IF attempt = maxRetries
    THEN [kind |-> "return",
          value |-> [success |-> FALSE, error |-> res.error,
                     fileName |-> file.name],
          delay |-> 0]
    ELSE [kind |-> "retry", value |-> Null, delay |-> RetryDelay(attempt)]

\* --------------------------------------------------------- pre-validation
\* the ceiling written with one factor too many
TooLarge_WrongCeiling(file) == file.size > 100 * GiB

TooLarge(file) == file.size > MaxFileSize

\* the emptiness test written as a sign test
IsEmptyFile_Negative(file) == file.size < 0

IsEmptyFile(file) == file.size = 0

RECURSIVE preValidateErrors(_)
preValidateErrors(fs) ==
    IF fs = <<>> THEN <<>>
    ELSE (IF TooLarge(Head(fs))
          THEN <<[message |-> "File too large (>10GB)",
                  fileName |-> Head(fs).name]>>
          ELSE IF IsEmptyFile(Head(fs))
          THEN <<[message |-> "Empty file", fileName |-> Head(fs).name]>>
          ELSE <<>>)
         \o preValidateErrors(Tail(fs))

preValidateFiles(fs) ==
    [validFiles |-> SelectSeq(fs, LAMBDA f : ~TooLarge(f) /\ ~IsEmptyFile(f)),
     errors |-> preValidateErrors(fs)]

NoFilesUploaded(fs) == Len(fs) = 0

\* the check of validFiles left out
NoValidFiles_Never(valid) == FALSE

NoValidFiles(valid) == Len(valid) = 0

\* ------------------------------------------------------ concurrency limit
RECURSIVE TotalSize(_)
TotalSize(fs) == IF fs = <<>> THEN 0 ELSE Head(fs).size + TotalSize(Tail(fs))

\* totalSize / files.length > bound, without the division
AvgAbove(fs, bound) == TotalSize(fs) > bound * Len(fs)

\* the table with >= in place of >
getConcurrencyLimit_Inclusive(fs) ==
    IF TotalSize(fs) >= 100 * MiB * Len(fs) THEN 1
    ELSE IF TotalSize(fs) >= 10 * MiB * Len(fs) THEN 2
    ELSE IF TotalSize(fs) >= 2 * MiB * Len(fs) THEN 3
    ELSE 4

getConcurrencyLimit(fs) ==
    IF AvgAbove(fs, 100 * MiB) THEN 1
    ELSE IF AvgAbove(fs, 10 * MiB) THEN 2
    ELSE IF AvgAbove(fs, 2 * MiB) THEN 3
    ELSE 4

\* ------------------------------------------------------------ aggregation
RECURSIVE separateSuccessful(_)
separateSuccessful(rs) ==
    IF rs = <<>> THEN <<>>
    ELSE (IF Head(rs) # Null /\ Head(rs).success
          THEN <<Head(rs).data>> ELSE <<>>)
         \o separateSuccessful(Tail(rs))

RECURSIVE separateKVOps(_, _)
separateKVOps(rs, bound) ==
    IF rs = <<>> THEN <<>>
    ELSE (IF Head(rs) # Null /\ Head(rs).success /\ bound
          THEN <<Head(rs).kvOperation>> ELSE <<>>)
         \o separateKVOps(Tail(rs), bound)

separateResultsAndKVOps(rs, bound) ==
    [successfulUploads |-> separateSuccessful(rs),
     kvOperations |-> separateKVOps(rs, bound)]

\* the body of the 200 response: one {src, thumbnail} entry per success
SuccessBody(ups) == [k \in DOMAIN ups |-> [src |-> ups[k].src]]

OkResponse(ups) == [status |-> 200, body |-> SuccessBody(ups), error |-> ""]

ErrorResponse(msg) == [status |-> 500, body |-> <<>>, error |-> msg]

\* ------------------------------------------------------------------ state
VARIABLES
    pc,             \* position of onRequestPost
    files,          \* the parts named file / file[] of the form, in order
    kvBound,        \* env.img_url is bound
    validFiles,     \* preValidateFiles(files).validFiles
    errors,         \* preValidateFiles(files).errors
    concurrencyLimit,
    sliceStart,     \* i + 1 of the loop of processFilesConcurrently
    task,           \* per file name: position of processFileUploadWithRetry
    calls,          \* per file name: number of fetches issued
    hist,           \* per file name: the upstream responses received
    delays,         \* per file name: the backoff delays waited, in ms
    outcome,        \* per file name: the record its task resolved with
    results,        \* results of processFilesConcurrently
    successfulUploads,
    kvOperations,
    kvStart,        \* i + 1 of the loop of batchKVOperations
    kvState,        \* per kv operation: pending, inflight, ok, failed
    kvPuts,         \* the puts issued to env.img_url, in order of issue
    pauses,         \* the inter-slice and inter-group pauses waited, in ms
    response        \* the Response returned, Null before

vars == <<pc, files, kvBound, validFiles, errors, concurrencyLimit,
          sliceStart, task, calls, hist, delays, outcome, results,
          successfulUploads, kvOperations, kvStart, kvState, kvPuts,
          pauses, response>>

reqVars == <<files, kvBound, validFiles, errors, concurrencyLimit>>
taskVars == <<task, calls, hist, delays, outcome>>
kvVars == <<kvOperations, kvStart, kvState, kvPuts>>

Names == 1..Len(files)

\* the slice awaited with one position too many
SliceNames_OffByOne(s) ==
    { validFiles[k].name :
        k \in { j \in DOMAIN validFiles :
                  j >= s /\ j <= s + concurrencyLimit } }

\* names of the files of the slice that starts at position s of validFiles
SliceNames(s) ==
    { validFiles[k].name :
        k \in { j \in DOMAIN validFiles :
                  j >= s /\ j <= s + concurrencyLimit - 1 } }

\* the slice taken without its upper end
SliceOf_All(vf, s, limit) ==
    { vf[k].name : k \in { j \in DOMAIN vf : j >= s } }

SliceOf(vf, s, limit) ==
    { vf[k].name : k \in { j \in DOMAIN vf : j >= s /\ j <= s + limit - 1 } }

\* the group taken without its upper end
GroupOf_All(ops, s) == { j \in DOMAIN ops : j >= s }

\* indices of the kv operations of the group that starts at position s
GroupOf(ops, s) == { j \in DOMAIN ops : j >= s /\ j <= s + batchSize - 1 }

FileNamed(n) == files[n]

Init ==
    /\ pc = "start"
    /\ files = <<>>
    /\ kvBound = FALSE
    /\ validFiles = <<>>
    /\ errors = <<>>
    /\ concurrencyLimit = 0
    /\ sliceStart = 1
    /\ task = <<>>
    /\ calls = <<>>
    /\ hist = <<>>
    /\ delays = <<>>
    /\ outcome = <<>>
    /\ results = <<>>
    /\ successfulUploads = <<>>
    /\ kvOperations = <<>>
    /\ kvStart = 1
    /\ kvState = <<>>
    /\ kvPuts = <<>>
    /\ pauses = <<>>
    /\ response = Null

\* the tasks of a slice are created by batch.map: each runs synchronously
\* up to its fetch, so every fetch of the slice is issued at once
StartedTasks(t, names) ==
    [n \in DOMAIN t |-> IF n \in names
                        THEN [pc |-> "fetching", attempt |-> 1] ELSE t[n]]

StartedCalls(c, names) ==
    [n \in DOMAIN c |-> IF n \in names THEN c[n] + 1 ELSE c[n]]

\* each op() of a group runs synchronously up to its put
StartedPuts(st, grp) ==
    [j \in DOMAIN st |-> IF j \in grp THEN "inflight" ELSE st[j]]

RECURSIVE IssuedPuts(_, _, _)
IssuedPuts(ops, from, to) ==
    IF from > to \/ from > Len(ops) THEN <<>>
    ELSE <<ops[from]>> \o IssuedPuts(ops, from + 1, to)

\* onRequestPost from its entry to its first wait on the upstream:
\* formData(), errorHandling(), extraction of the files, the two checks,
\* preValidateFiles, getConcurrencyLimit and the dispatch of the first slice
ReceiveRequest(early, sz, bound) ==
    /\ pc = "start"
    /\ kvBound' = bound
    /\ UNCHANGED <<results, successfulUploads, kvOperations, kvStart,
                   kvState, kvPuts, pauses, sliceStart>>
    /\ IF early # "none"
       THEN /\ pc' = "done"
            /\ response' = ErrorResponse(early)
            /\ UNCHANGED <<files, validFiles, errors, concurrencyLimit,
                           task, calls, hist, delays, outcome>>
       ELSE LET fs == MkFiles(sz)
                pv == preValidateFiles(fs)
                limit == getConcurrencyLimit(pv.validFiles)
                idle == [n \in DOMAIN fs |-> [pc |-> "idle", attempt |-> 0]]
                zero == [n \in DOMAIN fs |-> 0]
            IN  /\ files' = fs
                /\ hist' = [n \in DOMAIN fs |-> <<>>]
                /\ delays' = [n \in DOMAIN fs |-> <<>>]
                /\ outcome' = [n \in DOMAIN fs |-> Null]
                /\ IF NoFilesUploaded(fs)
                   THEN /\ pc' = "done"
                        /\ response' = ErrorResponse("No files uploaded")
                        /\ UNCHANGED <<validFiles, errors, concurrencyLimit>>
                        /\ task' = idle
                        /\ calls' = zero
                   ELSE /\ validFiles' = pv.validFiles
                        /\ errors' = pv.errors
                        /\ IF NoValidFiles(pv.validFiles)
                           THEN /\ pc' = "done"
                                /\ response' =
                                     ErrorResponse("No valid files to upload")
                                /\ UNCHANGED concurrencyLimit
                                /\ task' = idle
                                /\ calls' = zero
                           ELSE /\ concurrencyLimit' = limit
                                /\ pc' = "uploading"
                                /\ response' = Null
                                /\ task' = StartedTasks(idle,
                                             SliceOf(pv.validFiles, 1, limit))
                                /\ calls' = StartedCalls(zero,
                                             SliceOf(pv.validFiles, 1, limit))

\* the part of onRequestPost after processFilesConcurrently has returned rs:
\* separateResultsAndKVOps, then either the first group of batchKVOperations
\* is issued or, with no kv operation, the 200 response is returned
AfterUploads(rs) ==
    LET sep == separateResultsAndKVOps(rs, kvBound)
        ops == sep.kvOperations
    IN  /\ successfulUploads' = sep.successfulUploads
        /\ kvOperations' = ops
        /\ kvStart' = 1
        /\ IF Len(ops) > 0
           THEN /\ pc' = "kv"
                /\ kvState' = StartedPuts([j \in DOMAIN ops |-> "pending"],
                                          GroupOf(ops, 1))
                /\ kvPuts' = kvPuts \o IssuedPuts(ops, 1, batchSize)
                /\ response' = Null
           ELSE /\ pc' = "done"
                /\ kvState' = <<>>
                /\ kvPuts' = kvPuts
                /\ response' = OkResponse(sep.successfulUploads)

\* the fetch of attempt task[n].attempt of file n settles with r; the task
\* runs on to its return or to the start of its backoff timer
UpstreamResponds(n, r) ==
    /\ pc = "uploading"
    /\ n \in Names
    /\ task[n].pc = "fetching"
    /\ r \in UpstreamResponses(n, task[n].attempt)
    /\ LET step == AttemptStep(FileNamed(n), task[n].attempt,
                               processFileUpload(FileNamed(n), r))
       IN  /\ hist' = [hist EXCEPT ![n] = Append(@, r)]
           /\ IF step.kind = "return"
              THEN /\ task' = [task EXCEPT ![n].pc = "done"]
                   /\ outcome' = [outcome EXCEPT ![n] = step.value]
                   /\ delays' = IF step.delay > 0
                                THEN [delays EXCEPT ![n] = Append(@, step.delay)]
                                ELSE delays
                   /\ UNCHANGED <<pc, response>>
              ELSE IF step.kind = "retry"
              THEN /\ task' = [task EXCEPT ![n].pc = "delay"]
                   /\ delays' = [delays EXCEPT ![n] = Append(@, step.delay)]
                   /\ UNCHANGED <<outcome, pc, response>>
              ELSE \* the task rejects: Promise.all rejects and the catch
                   \* block of onRequestPost answers
                   /\ task' = [task EXCEPT ![n].pc = "rejected"]
                   /\ pc' = "done"
                   /\ response' = ErrorResponse(step.value.error)
                   /\ UNCHANGED <<delays, outcome>>
    /\ UNCHANGED <<reqVars, sliceStart, calls, results, successfulUploads,
                   kvVars, pauses>>

\* the backoff timer of file n fires: the loop issues the next fetch
BackoffElapsed(n) ==
    /\ pc = "uploading"
    /\ n \in Names
    /\ task[n].pc = "delay"
    /\ task' = [task EXCEPT ![n] = [pc |-> "fetching", attempt |-> @.attempt + 1]]
    /\ calls' = [calls EXCEPT ![n] = @ + 1]
    /\ UNCHANGED <<pc, reqVars, sliceStart, hist, delays, outcome, results,
                   successfulUploads, kvVars, pauses, response>>

\* the loop left after its first slice
MoreSlices_Never(s, limit, vf) == FALSE

\* i + concurrencyLimit < files.length, with i = s - 1
MoreSlices(s, limit, vf) == (s - 1) + limit < Len(vf)

\* the results of a slice pushed last to first
RECURSIVE SliceResults_Reversed(_, _, _)
SliceResults_Reversed(from, to, out) ==
    IF from > to \/ from > Len(validFiles) THEN <<>>
    ELSE SliceResults_Reversed(from + 1, to, out)
         \o <<out[validFiles[from].name]>>

RECURSIVE SliceResults(_, _, _)
SliceResults(from, to, out) ==
    IF from > to \/ from > Len(validFiles) THEN <<>>
    ELSE <<out[validFiles[from].name]>> \o SliceResults(from + 1, to, out)

\* Promise.all of the current slice resolves: its results are appended in
\* the order of the slice; then the pause before the next slice starts, or
\* processFilesConcurrently returns
SliceSettled ==
    /\ pc = "uploading"
    /\ \A n \in SliceNames(sliceStart) : task[n].pc = "done"
    /\ LET rs == results \o SliceResults(sliceStart,
                                 sliceStart + concurrencyLimit - 1, outcome)
       IN  /\ results' = rs
           /\ IF MoreSlices(sliceStart, concurrencyLimit, validFiles)
              THEN /\ pc' = "slicePause"
                   /\ pauses' = Append(pauses, SlicePause)
                   /\ UNCHANGED <<successfulUploads, kvVars, response>>
              ELSE /\ AfterUploads(rs)
                   /\ UNCHANGED pauses
    /\ UNCHANGED <<reqVars, sliceStart, taskVars>>

\* the 100 ms pause is over: the next slice is dispatched
SlicePauseElapsed ==
    /\ pc = "slicePause"
    /\ sliceStart' = sliceStart + concurrencyLimit
    /\ task' = StartedTasks(task, SliceNames(sliceStart + concurrencyLimit))
    /\ calls' = StartedCalls(calls, SliceNames(sliceStart + concurrencyLimit))
    /\ pc' = "uploading"
    /\ UNCHANGED <<reqVars, hist, delays, outcome, results, successfulUploads,
                   kvVars, pauses, response>>

\* the put of kv operation j settles; a rejection is caught and logged
KVSettles(j, ok) ==
    /\ pc = "kv"
    /\ j \in DOMAIN kvState
    /\ kvState[j] = "inflight"
    /\ kvState' = [kvState EXCEPT ![j] = IF ok THEN "ok" ELSE "failed"]
    /\ UNCHANGED <<pc, reqVars, sliceStart, taskVars, results,
                   successfulUploads, kvOperations, kvStart, kvPuts, pauses,
                   response>>

\* Promise.all of the current group resolves: the pause before the next
\* group starts, or batchKVOperations returns and the 200 response is built
KVGroupSettled ==
    /\ pc = "kv"
    /\ \A j \in GroupOf(kvOperations, kvStart) : kvState[j] \in {"ok", "failed"}
    /\ IF (kvStart - 1) + batchSize < Len(kvOperations)
       THEN /\ pc' = "kvPause"
            /\ pauses' = Append(pauses, KVPause)
            /\ UNCHANGED response
       ELSE /\ pc' = "done"
            /\ response' = OkResponse(successfulUploads)
            /\ UNCHANGED pauses
    /\ UNCHANGED <<reqVars, sliceStart, taskVars, results, successfulUploads,
                   kvVars>>

\* the 50 ms pause is over: the next group of puts is issued
KVPauseElapsed ==
    /\ pc = "kvPause"
    /\ kvStart' = kvStart + batchSize
    /\ kvState' = StartedPuts(kvState, GroupOf(kvOperations, kvStart + batchSize))
    /\ kvPuts' = kvPuts \o IssuedPuts(kvOperations, kvStart + batchSize,
                                      kvStart + 2 * batchSize - 1)
    /\ pc' = "kv"
    /\ UNCHANGED <<reqVars, sliceStart, taskVars, results, successfulUploads,
                   kvOperations, pauses, response>>

EarlyErrors == {"none", "formData failed", "errorHandling failed"}

\* with at most MaxFiles files one group of batchSize puts holds every kv
\* operation, so the pause between groups is not part of Next
Next ==
    \/ \E early \in EarlyErrors, sz \in FileLists, bound \in BOOLEAN :
          ReceiveRequest(early, sz, bound)
    \/ \E n \in Names : \E r \in UpstreamResponses(n, task[n].attempt) :
          UpstreamResponds(n, r)
    \/ \E n \in Names : BackoffElapsed(n)
    \/ SliceSettled
    \/ SlicePauseElapsed
    \/ \E j \in DOMAIN kvState, ok \in BOOLEAN : KVSettles(j, ok)
    \/ KVGroupSettled

Spec == Init /\ [][Next]_vars

\* The answers of the upstream by the way processFileUpload ends on them:
\* stored (it returns), an envelope that is not ok (getFileInfo gives null),
\* an error status (response.ok is false; the code does not look at which),
\* a fetch that rejects.
CoreShapes == { s \in ResponseShapes : s.status \in {0, 200, 503} }

NextCore ==
    \/ \E early \in EarlyErrors, sz \in FileLists, bound \in BOOLEAN :
          ReceiveRequest(early, sz, bound)
    \/ \E n \in Names : \E r \in UpstreamResponses(n, task[n].attempt) :
          /\ [status |-> r.status, ok |-> r.ok, branch |-> r.branch]
                \in CoreShapes
          /\ UpstreamResponds(n, r)
    \/ \E n \in Names : BackoffElapsed(n)
    \/ SliceSettled
    \/ SlicePauseElapsed
    \/ \E j \in DOMAIN kvState, ok \in BOOLEAN : KVSettles(j, ok)
    \/ KVGroupSettled

\* the handler with one error status standing for all of them
SpecCore == Init /\ [][NextCore]_vars

\* every upstream call, kv write and timer that is pending eventually
\* completes, and the request is eventually handled
LiveShapes == { s \in CoreShapes : s.status = 200 => s.ok }

NextLive ==
    \/ \E early \in EarlyErrors, sz \in FileLists, bound \in BOOLEAN :
          ReceiveRequest(early, sz, bound)
    \/ \E n \in Names : \E r \in UpstreamResponses(n, task[n].attempt) :
          /\ [status |-> r.status, ok |-> r.ok, branch |-> r.branch]
                \in LiveShapes
          /\ UpstreamResponds(n, r)
    \/ \E n \in Names : BackoffElapsed(n)
    \/ SliceSettled
    \/ SlicePauseElapsed
    \/ \E j \in DOMAIN kvState, ok \in BOOLEAN : KVSettles(j, ok)
    \/ KVGroupSettled

LiveSpec == Init /\ [][NextLive]_vars /\ WF_vars(NextLive)

\* ------------------------------------------- the fully parallel variant
\* The earlier onRequestPost (part_000): no pre-validation, every file is
\* dispatched at once, no retry, and the kv put is awaited inside
\* processFileUpload, within its try block.

\* processFileUpload of that variant up to its kv put: null (a logged error
\* or a caught exception), or the record it will return once the put is done
processFileUploadInline(file, r) ==
    IF r.status = 0 THEN [found |-> FALSE, data |-> Null]
    ELSE IF ~ResponseOk(r) THEN [found |-> FALSE, data |-> Null]
    ELSE IF getFileInfo(r) = Null THEN [found |-> FALSE, data |-> Null]
    ELSE [found |-> TRUE,
          data |-> [src |-> FileKey(getFileInfo(r).fileId, file),
                    fileName |-> file.name],
          put |-> [key |-> FileKey(getFileInfo(r).fileId, file),
                   fileName |-> file.name,
                   fileSize |-> file.size]]

\* the put rejecting is an exception inside the try block: the catch block
\* returns null
AfterInlinePut(data, ok) == IF ok THEN data ELSE Null

\* results.filter(result => result !== null)
RECURSIVE filterNotNull(_)
filterNotNull(rs) ==
    IF rs = <<>> THEN <<>>
    ELSE (IF Head(rs) # Null THEN <<Head(rs)>> ELSE <<>>)
         \o filterNotNull(Tail(rs))

\* onRequestPost of the parallel variant from its entry to Promise.all
ReceiveInline(early, sz, bound) ==
    /\ pc = "start"
    /\ kvBound' = bound
    /\ UNCHANGED <<validFiles, errors, concurrencyLimit, sliceStart, results,
                   successfulUploads, kvOperations, kvStart, kvState, kvPuts,
                   pauses>>
    /\ IF early # "none"
       THEN /\ pc' = "done"
            /\ response' = ErrorResponse(early)
            /\ UNCHANGED <<files, task, calls, hist, delays, outcome>>
       ELSE LET fs == MkFiles(sz)
            IN  /\ files' = fs
                /\ hist' = [n \in DOMAIN fs |-> <<>>]
                /\ delays' = [n \in DOMAIN fs |-> <<>>]
                /\ outcome' = [n \in DOMAIN fs |-> Null]
                /\ IF NoFilesUploaded(fs)
                   THEN /\ pc' = "done"
                        /\ response' = ErrorResponse("No files uploaded")
                        /\ task' = <<>>
                        /\ calls' = <<>>
                   ELSE /\ pc' = "inline"
                        /\ response' = Null
                        /\ task' = [n \in DOMAIN fs |->
                                      [pc |-> "fetching", attempt |-> 1]]
                        /\ calls' = [n \in DOMAIN fs |-> 1]

\* the fetch of file n settles with r: the task returns null, or returns
\* its record (no kv binding), or issues its put and waits for it
InlineResponds(n, r) ==
    /\ pc = "inline"
    /\ n \in Names
    /\ task[n].pc = "fetching"
    /\ r \in UpstreamResponses(n, 1)
    /\ hist' = [hist EXCEPT ![n] = Append(@, r)]
    /\ LET res == processFileUploadInline(FileNamed(n), r)
       IN  IF res.found /\ kvBound
           THEN /\ task' = [task EXCEPT ![n].pc = "putting"]
                /\ kvPuts' = Append(kvPuts, res.put)
                /\ outcome' = [outcome EXCEPT ![n] = res.data]
           ELSE /\ task' = [task EXCEPT ![n].pc = "done"]
                /\ outcome' = [outcome EXCEPT ![n] = res.data]
                /\ UNCHANGED kvPuts
    /\ UNCHANGED <<pc, reqVars, sliceStart, calls, delays, results,
                   successfulUploads, kvOperations, kvStart, kvState, pauses,
                   response>>

\* the put of file n settles: the task returns its record, or null when
\* the put rejected
InlinePutSettles(n, ok) ==
    /\ pc = "inline"
    /\ n \in Names
    /\ task[n].pc = "putting"
    /\ task' = [task EXCEPT ![n].pc = "done"]
    /\ outcome' = [outcome EXCEPT ![n] = AfterInlinePut(@, ok)]
    /\ UNCHANGED <<pc, reqVars, sliceStart, calls, hist, delays, results,
                   successfulUploads, kvVars, pauses, response>>

\* Promise.all resolves with the results in the order of the form; the
\* nulls are filtered out and the 200 response is returned
InlineAllSettled ==
    /\ pc = "inline"
    /\ \A n \in Names : task[n].pc = "done"
    /\ results' = [k \in DOMAIN files |-> outcome[k]]
    /\ successfulUploads' = filterNotNull([k \in DOMAIN files |-> outcome[k]])
    /\ response' = OkResponse(filterNotNull([k \in DOMAIN files |-> outcome[k]]))
    /\ pc' = "done"
    /\ UNCHANGED <<reqVars, sliceStart, taskVars, kvVars, pauses>>

NextInline ==
    \/ \E early \in EarlyErrors, sz \in FileLists, bound \in BOOLEAN :
          ReceiveInline(early, sz, bound)
    \/ \E n \in Names : \E r \in UpstreamResponses(n, 1) : InlineResponds(n, r)
    \/ \E n \in Names, ok \in BOOLEAN : InlinePutSettles(n, ok)
    \/ InlineAllSettled

SpecInline == Init /\ [][NextInline]_vars

\* both variants: a request is served by one of the two handlers
NextAll == NextCore \/ NextInline

SpecAll == Init /\ [][NextAll]_vars

\* ------------------------------------------------- the simple variant
\* The first onRequestPost (upload.js, second half): the parts named file,
\* every file dispatched at once, no retry, the kv put awaited inside
\* uploadFileToTelegram, and an error when no upload is left.

\* only a document carries a file id
getFileId(r) ==
    IF ~r.ok \/ r.branch = "none" THEN Null
    ELSE IF r.branch = "document" THEN [fileId |-> r.fileId]
    ELSE Null

\* uploadFileToTelegram up to its kv put: null, or the record it will
\* return once the put is done
uploadFileToTelegram(file, r) ==
    IF r.status = 0 THEN [found |-> FALSE, data |-> Null]
    ELSE IF ~ResponseOk(r) THEN [found |-> FALSE, data |-> Null]
    ELSE IF getFileId(r) = Null THEN [found |-> FALSE, data |-> Null]
    ELSE [found |-> TRUE,
          data |-> [src |-> FileKey(getFileId(r).fileId, file),
                    fileName |-> file.name],
          put |-> [key |-> FileKey(getFileId(r).fileId, file),
                   fileName |-> file.name,
                   fileSize |-> file.size]]

\* the test of successfulUploads left out
AllUploadsFailed_Never(ups) == FALSE

\* successfulUploads.length === 0
AllUploadsFailed(ups) == Len(ups) = 0

\* onRequestPost of the simple variant from its entry to Promise.all
ReceiveSimple(early, sz, bound) ==
    /\ pc = "start"
    /\ kvBound' = bound
    /\ UNCHANGED <<validFiles, errors, concurrencyLimit, sliceStart, results,
                   successfulUploads, kvOperations, kvStart, kvState, kvPuts,
                   pauses>>
    /\ IF early # "none"
       THEN /\ pc' = "done"
            /\ response' = ErrorResponse(early)
            /\ UNCHANGED <<files, task, calls, hist, delays, outcome>>
       ELSE LET fs == MkFiles(sz)
            IN  /\ files' = fs
                /\ hist' = [n \in DOMAIN fs |-> <<>>]
                /\ delays' = [n \in DOMAIN fs |-> <<>>]
                /\ outcome' = [n \in DOMAIN fs |-> Null]
                /\ IF NoFilesUploaded(fs)
                   THEN /\ pc' = "done"
                        /\ response' = ErrorResponse("No files uploaded")
                        /\ task' = <<>>
                        /\ calls' = <<>>
                   ELSE /\ pc' = "simple"
                        /\ response' = Null
                        /\ task' = [n \in DOMAIN fs |->
                                      [pc |-> "fetching", attempt |-> 1]]
                        /\ calls' = [n \in DOMAIN fs |-> 1]

\* the fetch of file n settles with r
SimpleResponds(n, r) ==
    /\ pc = "simple"
    /\ n \in Names
    /\ task[n].pc = "fetching"
    /\ r \in UpstreamResponses(n, 1)
    /\ hist' = [hist EXCEPT ![n] = Append(@, r)]
    /\ LET res == uploadFileToTelegram(FileNamed(n), r)
       IN  IF res.found /\ kvBound
           THEN /\ task' = [task EXCEPT ![n].pc = "putting"]
                /\ kvPuts' = Append(kvPuts, res.put)
                /\ outcome' = [outcome EXCEPT ![n] = res.data]
           ELSE /\ task' = [task EXCEPT ![n].pc = "done"]
                /\ outcome' = [outcome EXCEPT ![n] = res.data]
                /\ UNCHANGED kvPuts
    /\ UNCHANGED <<pc, reqVars, sliceStart, calls, delays, results,
                   successfulUploads, kvOperations, kvStart, kvState, pauses,
                   response>>

\* the put of file n settles; a rejection is caught and null is returned
SimplePutSettles(n, ok) ==
    /\ pc = "simple"
    /\ n \in Names
    /\ task[n].pc = "putting"
    /\ task' = [task EXCEPT ![n].pc = "done"]
    /\ outcome' = [outcome EXCEPT ![n] = AfterInlinePut(@, ok)]
    /\ UNCHANGED <<pc, reqVars, sliceStart, calls, hist, delays, results,
                   successfulUploads, kvVars, pauses, response>>

\* Promise.all resolves: the nulls are filtered out; with nothing left the
\* handler throws and its catch block answers 500
SimpleAllSettled ==
    /\ pc = "simple"
    /\ \A n \in Names : task[n].pc = "done"
    /\ results' = [k \in DOMAIN files |-> outcome[k]]
    /\ successfulUploads' = filterNotNull([k \in DOMAIN files |-> outcome[k]])
    /\ response' =
          IF AllUploadsFailed(filterNotNull([k \in DOMAIN files |-> outcome[k]]))
          THEN ErrorResponse("All file uploads failed")
          ELSE OkResponse(filterNotNull([k \in DOMAIN files |-> outcome[k]]))
    /\ pc' = "done"
    /\ UNCHANGED <<reqVars, sliceStart, taskVars, kvVars, pauses>>

NextSimple ==
    \/ \E early \in EarlyErrors, sz \in FileLists, bound \in BOOLEAN :
          ReceiveSimple(early, sz, bound)
    \/ \E n \in Names : \E r \in UpstreamResponses(n, 1) : SimpleResponds(n, r)
    \/ \E n \in Names, ok \in BOOLEAN : SimplePutSettles(n, ok)
    \/ SimpleAllSettled

\* a request is served by the concurrency-limited handler or by the simple
\* one
NextVariants == NextCore \/ NextSimple

SpecVariants == Init /\ [][NextVariants]_vars

\* ------------------------------------- getConcurrencyLimit on its own
MaxLimitFiles == 2

\* valid sizes on both sides of each row of the table
LimitSizes ==
    {1 * KiB, 1 * MiB, 2 * MiB, 2 * MiB + 1 * KiB, 10 * MiB,
     10 * MiB + 1 * KiB, 50 * MiB, 100 * MiB, 100 * MiB + 1 * KiB,
     150 * MiB}

LimitLists == UNION {[1..n -> LimitSizes] : n \in 1..MaxLimitFiles}

\* a batch of valid files is about to be dispatched
InitLimit ==
    /\ pc = "limit"
    /\ \E sz \in LimitLists :
          /\ files = MkFiles(sz)
          /\ validFiles = MkFiles(sz)
    /\ kvBound = FALSE
    /\ errors = <<>>
    /\ concurrencyLimit = 0
    /\ sliceStart = 1
    /\ task = [n \in DOMAIN files |-> [pc |-> "idle", attempt |-> 0]]
    /\ calls = [n \in DOMAIN files |-> 0]
    /\ hist = [n \in DOMAIN files |-> <<>>]
    /\ delays = [n \in DOMAIN files |-> <<>>]
    /\ outcome = [n \in DOMAIN files |-> Null]
    /\ results = <<>>
    /\ successfulUploads = <<>>
    /\ kvOperations = <<>>
    /\ kvStart = 1
    /\ kvState = <<>>
    /\ kvPuts = <<>>
    /\ pauses = <<>>
    /\ response = Null

\* processFilesConcurrently computes its limit
ComputeLimit ==
    /\ pc = "limit"
    /\ concurrencyLimit' = getConcurrencyLimit(validFiles)
    /\ pc' = "limited"
    /\ UNCHANGED <<files, kvBound, validFiles, errors, sliceStart, taskVars,
                   results, successfulUploads, kvVars, pauses, response>>

NextLimit == ComputeLimit

SpecLimit == InitLimit /\ [][NextLimit]_vars

\* --------------------------------------- batchKVOperations on its own
MaxKVOps == 6

\* the answer of the upstream that stores file n at its first attempt
StoredResponse(n) ==
    [status |-> 200, ok |-> TRUE, branch |-> "document", fileId |-> n * 10 + 1]

StoredOutcomes(fs) ==
    [n \in DOMAIN fs |-> processFileUpload(fs[n], StoredResponse(n)).value]

\* onRequestPost has uploaded a batch of small files, each stored at its
\* first attempt, and batchKVOperations has just issued its first group
InitKV ==
    /\ pc = "kv"
    /\ \E count \in 1..MaxKVOps :
          /\ files = MkFiles([i \in 1..count |-> 1 * KiB])
          /\ pauses = [i \in 1..((count - 1) \div 4) |-> SlicePause]
          /\ sliceStart = 1 + 4 * ((count - 1) \div 4)
    /\ validFiles = files
    /\ kvBound = TRUE
    /\ errors = <<>>
    /\ concurrencyLimit = getConcurrencyLimit(files)
    /\ task = [n \in DOMAIN files |-> [pc |-> "done", attempt |-> 1]]
    /\ calls = [n \in DOMAIN files |-> 1]
    /\ hist = [n \in DOMAIN files |-> <<StoredResponse(n)>>]
    /\ delays = [n \in DOMAIN files |-> <<>>]
    /\ outcome = StoredOutcomes(files)
    /\ results = StoredOutcomes(files)
    /\ successfulUploads =
          separateResultsAndKVOps(StoredOutcomes(files), TRUE).successfulUploads
    /\ kvOperations =
          separateResultsAndKVOps(StoredOutcomes(files), TRUE).kvOperations
    /\ kvStart = 1
    /\ kvState = StartedPuts([j \in DOMAIN kvOperations |-> "pending"],
                             GroupOf(kvOperations, 1))
    /\ kvPuts = IssuedPuts(kvOperations, 1, batchSize)
    /\ response = Null

NextKV ==
    \/ \E j \in DOMAIN kvState, ok \in BOOLEAN : KVSettles(j, ok)
    \/ KVGroupSettled
    \/ KVPauseElapsed

SpecKV == InitKV /\ [][NextKV]_vars

\* ------------------------------------------------------------- properties
Finished == pc = "done"

Orchestrated == Finished /\ validFiles # <<>>

IsSuccess(rec) == rec # Null /\ rec.success

IsFailure(rec) == rec # Null /\ ~rec.success

SuccessCount == Cardinality({k \in DOMAIN results : IsSuccess(results[k])})

FailCount == Cardinality({k \in DOMAIN results : IsFailure(results[k])})

Dispatched == {validFiles[k].name : k \in DOMAIN validFiles}

InBody(n) ==
    \E k \in DOMAIN response.body : response.body[k].src = outcome[n].data.src

PutIssuedFor(n) == \E k \in DOMAIN kvPuts : kvPuts[k].fileName = n

AllOkFalse(n) == \A k \in DOMAIN hist[n] : ~hist[n][k].ok

\* C1: in every orchestrated request each input file is counted in exactly
\* one of the success and failure outcomes: successCount + failCount = |F|.
C1_NoFileLost ==
    (Finished /\ response.status = 200)
        => SuccessCount + FailCount = Len(files)

\* C2: a failing file never aborts the batch: once files were dispatched the
\* request ends with status 200, results holds exactly one record per
\* dispatched file, in order, no task rejects, and every file that succeeded
\* is in the response.
C2_FailureNeverAbortsBatch ==
    /\ \A n \in Names : task[n].pc # "rejected"
    /\ Orchestrated =>
          /\ response.status = 200
          /\ Len(results) = Len(validFiles)
          /\ \A k \in DOMAIN validFiles :
                /\ results[k] = outcome[validFiles[k].name]
                /\ results[k] # Null
                /\ task[validFiles[k].name].pc = "done"
          /\ \A n \in Dispatched : IsSuccess(outcome[n]) => InBody(n)

C2_Witness ==
    /\ Orchestrated
    /\ Len(results) = 2
    /\ IsFailure(results[1])
    /\ IsSuccess(results[2])
    /\ InBody(validFiles[2].name)

\* C3: the status is 200 whenever some file has a success outcome, and 500
\* when the file list is empty, when every file fails pre-validation, or
\* when an exception occurs before orchestration begins.
C3_ResponseStatus ==
    Finished =>
        /\ (\E n \in Names : IsSuccess(outcome[n])) => response.status = 200
        /\ files = <<>> => response.status = 500
        /\ validFiles = <<>> => response.status = 500
        /\ response.error \in (EarlyErrors \ {"none"}) =>
              (response.status = 500 /\ files = <<>>)

C3_Witness ==
    /\ Finished
    /\ Len(files) = 2
    /\ validFiles = <<>>
    /\ Len(errors) = 2
    /\ response.status = 500

\* C4: when a batch ends with a success and a failure, the 200 response
\* lists every failed file with its name and its failure reason.
C4_FailuresEnumerated ==
    (Finished /\ response.status = 200 /\ SuccessCount > 0 /\ FailCount > 0)
        => \A k \in DOMAIN results :
              IsFailure(results[k]) =>
                 \E b \in DOMAIN response.body :
                    /\ "fileName" \in DOMAIN response.body[b]
                    /\ "error" \in DOMAIN response.body[b]
                    /\ response.body[b].fileName = results[k].fileName
                    /\ response.body[b].error = results[k].error

\* C5: a file larger than 10 GiB gets a failure entry with a size message
\* from pre-validation and no upstream call is ever made for it.
C5_TooLargeNeverUploaded ==
    \A n \in Names :
        files[n].size > MaxFileSize =>
            /\ calls[n] = 0
            /\ task[n].pc = "idle"
            /\ ~IsSuccess(outcome[n])
            /\ \E k \in DOMAIN errors :
                  /\ errors[k].fileName = n
                  /\ errors[k].message = "File too large (>10GB)"

C5_Witness ==
    /\ Finished
    /\ response.status = 200
    /\ \E n \in Names : files[n].size > MaxFileSize
    /\ \E n \in Names : calls[n] > 0

\* C6: no upstream call is ever made for a zero-byte file, whether or not
\* other files of the batch are valid.
C6_EmptyNeverUploaded ==
    \A n \in Names :
        files[n].size = 0 =>
            /\ calls[n] = 0
            /\ task[n].pc = "idle"
            /\ n \notin Dispatched

C6_Witness ==
    /\ Finished
    /\ response.status = 200
    /\ \E n \in Names : files[n].size = 0
    /\ \E n \in Names : IsSuccess(outcome[n])

\* C7: a file all of whose upstream responses have ok:false never gets a kv
\* write, and when its task is done its outcome is a failure.
C7_OkFalseFails ==
    \A n \in Names :
        AllOkFalse(n) =>
            /\ ~PutIssuedFor(n)
            /\ \A k \in DOMAIN kvOperations : kvOperations[k].fileName # n
            /\ task[n].pc = "done" => IsFailure(outcome[n])

C7_Witness ==
    /\ Finished
    /\ kvPuts # <<>>
    /\ \E n \in Names :
          /\ Len(hist[n]) = maxRetries
          /\ AllOkFalse(n)
          /\ hist[n][1].status = 200
          /\ IsFailure(outcome[n])

\* C8: with two files, the first succeeding at once and the second getting
\* HTTP 503 on its first two attempts (and 200 on a third), the second file
\* is called three times, waits 500 ms then 1000 ms, and ends in success.
C8_LinearRetryOn503 ==
    (/\ Finished
     /\ Len(files) = 2
     /\ Len(validFiles) = 2
     /\ Len(hist[1]) = 1
     /\ IsSuccess(outcome[1])
     /\ Len(hist[2]) >= 2
     /\ hist[2][1].status = 503
     /\ hist[2][2].status = 503
     /\ Len(hist[2]) >= 3 => hist[2][3].status = 200)
        => /\ calls[2] = 3
           /\ delays[2] = <<500, 1000>>
           /\ IsSuccess(outcome[2])

\* C9: after HTTP 429 on attempt 1 of a file the delay before attempt 2 is
\* min(1000 * 2^1, 30000) = 2000 ms.
C9_Delay429 ==
    \A n \in Names :
        (/\ Len(hist[n]) >= 1
         /\ hist[n][1].status = 429
         /\ calls[n] >= 2)
            => (Len(delays[n]) >= 1 /\ delays[n][1] = 2000)

\* C10: a file whose upstream call returns a 4xx status other than 429 is
\* not retried: one upstream call is made for it and it ends in failure.
C10_ClientErrorNotRetried ==
    \A n \in Names :
        (/\ Len(hist[n]) >= 1
         /\ \A k \in DOMAIN hist[n] :
               /\ hist[n][k].status >= 400
               /\ hist[n][k].status <= 499
               /\ hist[n][k].status # 429
         /\ task[n].pc = "done")
            => /\ calls[n] = 1
               /\ IsFailure(outcome[n])

\* the upstream stored the file: a 2xx response whose envelope is ok and
\* carries a document
Stored(r) == r.status = 200 /\ r.ok /\ r.branch = "document"

LastResponse(n) == hist[n][Len(hist[n])]

UploadSucceeded(n) == hist[n] # <<>> /\ Stored(LastResponse(n))

ListedInBody(n) ==
    \E k \in DOMAIN response.body :
        response.body[k].src =
            [fileId |-> LastResponse(n).fileId,
             ext |-> FileExtension(NameText(n))]

\* C11: a file whose upstream upload succeeded is listed in the 200 response
\* whether its kv write succeeded or failed.
C11_KVFailureKeepsSuccess ==
    Finished =>
        \A n \in Names :
            UploadSucceeded(n) => (response.status = 200 /\ ListedInBody(n))

\* the average size of the batch exceeds bound: its integer part does, or
\* equals bound with a remainder
AverageExceeds(fs, bound) ==
    \/ TotalSize(fs) \div Len(fs) > bound
    \/ (TotalSize(fs) \div Len(fs) = bound /\ TotalSize(fs) % Len(fs) > 0)

TableLimit(fs) ==
    CASE AverageExceeds(fs, 102400) -> 1
      [] ~AverageExceeds(fs, 102400) /\ AverageExceeds(fs, 10240) -> 2
      [] ~AverageExceeds(fs, 10240) /\ AverageExceeds(fs, 2048) -> 3
      [] OTHER -> 4

AverageIs(fs, avg) == TotalSize(fs) = avg * Len(fs)

\* C12: for a non-empty batch getConcurrencyLimit is the table value of the
\* average size: 1 above 100 MiB, 2 above 10 MiB, 3 above 2 MiB, else 4;
\* 150 MiB gives 1, 1 MiB gives 4, and exactly 100 MiB, 10 MiB and 2 MiB
\* fall in the lower-size row (2, 3 and 4).
C12_ConcurrencyTable ==
    pc = "limited" =>
        /\ concurrencyLimit = TableLimit(validFiles)
        /\ AverageIs(validFiles, 153600) => concurrencyLimit = 1
        /\ AverageIs(validFiles, 1024) => concurrencyLimit = 4
        /\ AverageIs(validFiles, 102400) => concurrencyLimit = 2
        /\ AverageIs(validFiles, 10240) => concurrencyLimit = 3
        /\ AverageIs(validFiles, 2048) => concurrencyLimit = 4

C12_Witness ==
    /\ pc = "limited"
    /\ Len(validFiles) = 2
    /\ AverageIs(validFiles, 102400)
    /\ validFiles[1].size # validFiles[2].size
    /\ concurrencyLimit = 2

InFlight == {n \in Names : task[n].pc \in {"fetching", "delay"}}

\* the slice a position of validFiles belongs to, counted from 0
SliceIndex(p) == (p - 1) \div concurrencyLimit

\* C13: the upload tasks in flight never exceed the concurrency limit of
\* the batch, and no task of a later slice is started before every task of
\* each earlier slice has produced its outcome.
C13_SlicesBounded ==
    validFiles # <<>> =>
        /\ Cardinality(InFlight) <= concurrencyLimit
        /\ \A p, q \in DOMAIN validFiles :
              (SliceIndex(p) < SliceIndex(q)
                 /\ task[validFiles[q].name].pc # "idle")
                  => /\ task[validFiles[p].name].pc = "done"
                     /\ outcome[validFiles[p].name] # Null

C13_Witness ==
    /\ pc = "uploading"
    /\ Len(validFiles) = 2
    /\ concurrencyLimit = 1
    /\ sliceStart = 2
    /\ Len(hist[validFiles[1].name]) = 2
    /\ task[validFiles[2].name].pc = "delay"

PutsFor(n) == {k \in DOMAIN kvPuts : kvPuts[k].fileName = n}

\* the lower-cased text after the last dot of the name of each file
ExpectedExtension(n) ==
    IF n = 1 THEN <<"j">>
    ELSE IF n = 2 THEN <<"g">>
    ELSE IF n = 3 THEN <<"r">>
    ELSE <<"p">>

\* C14: no file gets more than one kv put in a request, whatever its number
\* of attempts; puts are issued for successful files only; when the request
\* is answered with a bound store, every successful file has exactly one
\* put, under the key made of the remote file id of its successful response
\* and its extension; and no two puts of the request share a key.
C14_OnePutPerSuccess ==
    /\ \A n \in Names :
          /\ Cardinality(PutsFor(n)) <= 1
          /\ PutsFor(n) # {} => IsSuccess(outcome[n])
          /\ (Finished /\ kvBound /\ IsSuccess(outcome[n])) =>
                \E k \in DOMAIN kvPuts :
                    /\ PutsFor(n) = {k}
                    /\ kvPuts[k].key.fileId = LastResponse(n).fileId
                    /\ kvPuts[k].key.ext = ExpectedExtension(n)
    /\ \A j, k \in DOMAIN kvPuts : j # k => kvPuts[j].key # kvPuts[k].key

C14_Witness ==
    /\ Finished
    /\ kvBound
    /\ Len(kvPuts) = 2
    /\ \E n \in Names :
          /\ Len(hist[n]) = 2
          /\ IsSuccess(outcome[n])
          /\ Cardinality(PutsFor(n)) = 1

AllFailed(n) == \A k \in DOMAIN hist[n] : ~Stored(hist[n][k])

\* C15: a backoff delay lies only between two attempts of one file: a task
\* that has produced its outcome has waited one delay less than it made
\* calls (none after its last attempt), an attempt is in flight only after
\* every earlier attempt has failed and its delay has been waited, and a
\* task waits only after a failed attempt that is not the last.
C15_DelayOnlyBetweenAttempts ==
    \A n \in Names :
        /\ task[n].pc = "idle" =>
              (calls[n] = 0 /\ hist[n] = <<>> /\ delays[n] = <<>>)
        /\ task[n].pc = "fetching" =>
              /\ calls[n] = task[n].attempt
              /\ Len(hist[n]) = calls[n] - 1
              /\ Len(delays[n]) = calls[n] - 1
              /\ AllFailed(n)
        /\ task[n].pc = "delay" =>
              /\ calls[n] = task[n].attempt
              /\ calls[n] < 2
              /\ Len(hist[n]) = calls[n]
              /\ Len(delays[n]) = calls[n]
              /\ AllFailed(n)
        /\ task[n].pc = "done" =>
              /\ Len(hist[n]) = calls[n]
              /\ Len(delays[n]) = calls[n] - 1
              /\ outcome[n] # Null

C15_Witness ==
    \E n \in Names :
        /\ task[n].pc = "done"
        /\ IsFailure(outcome[n])
        /\ calls[n] = 2
        /\ delays[n] = <<1000>>

KVInFlight == {j \in DOMAIN kvState : kvState[j] = "inflight"}

KVSettled(j) == kvState[j] \in {"ok", "failed"}

\* the group a kv operation belongs to, counted from 0
GroupIndex(j) == (j - 1) \div 5

\* C16: at most 5 kv writes are in flight, no write of a later group has
\* started before every write of each earlier group has settled, and when
\* batchKVOperations has returned every write was attempted and has
\* settled, whichever writes failed.
C16_KVGroupsBounded ==
    /\ Cardinality(KVInFlight) <= 5
    /\ \A j, k \in DOMAIN kvState :
          (GroupIndex(j) < GroupIndex(k) /\ kvState[k] # "pending")
              => KVSettled(j)
    /\ Len(kvPuts) = Cardinality({j \in DOMAIN kvState : kvState[j] # "pending"})
    /\ Finished =>
          /\ kvPuts = kvOperations
          /\ \A j \in DOMAIN kvState : KVSettled(j)
          /\ response.status = 200

C16_Witness ==
    /\ Finished
    /\ Len(kvOperations) = 6
    /\ kvState[1] = "failed"
    /\ kvState[6] = "ok"
    /\ KVPause \in {pauses[i] : i \in DOMAIN pauses}

\* C17: when every pending upstream call, kv write and timer eventually
\* completes, onRequestPost eventually returns a response, and it returns
\* one response only: there is a response exactly when the handler has
\* finished, and a response once returned never changes.
C17_Terminates ==
    /\ <>Finished
    /\ [](Finished <=> response # Null)
    /\ [][response # Null => response' = response]_vars

C17_Witness ==
    /\ Finished
    /\ response.status = 200
    /\ \E n \in Names : calls[n] = 2 /\ IsFailure(outcome[n])
    /\ \E j \in DOMAIN kvState : kvState[j] = "failed"

\* C18: at most 2 upstream calls are made for a dispatched file (none for
\* a file that is not dispatched), and a call that stored the file is the
\* last call of that file: the task is done with a success outcome and no
\* call has been issued after it.
C18_AtMostTwoCalls ==
    \A n \in Names :
        /\ calls[n] <= 2
        /\ Len(hist[n]) <= calls[n]
        /\ n \notin Dispatched => calls[n] = 0
        /\ \A k \in DOMAIN hist[n] :
              Stored(hist[n][k]) =>
                  /\ k = Len(hist[n])
                  /\ calls[n] = k
                  /\ task[n].pc = "done"
                  /\ IsSuccess(outcome[n])

C18_Witness ==
    /\ Finished
    /\ \E n \in Names :
          /\ calls[n] = 2
          /\ Stored(hist[n][2])
          /\ IsSuccess(outcome[n])
    /\ \E n \in Names : calls[n] = 2 /\ IsFailure(outcome[n])

\* C19: no kv write is started until every upload task of the batch has
\* reached its outcome: once a put has been issued no upload task is in
\* flight or still to be started, and the handler is past its uploads.
C19_KVAfterUploads ==
    kvPuts # <<>> =>
        /\ pc \in {"kv", "kvPause", "done"}
        /\ InFlight = {}
        /\ Len(results) = Len(validFiles)
        /\ \A n \in Dispatched :
              /\ task[n].pc = "done"
              /\ outcome[n] # Null
              /\ Len(hist[n]) = calls[n]

C19_Witness ==
    /\ pc = "kv"
    /\ KVInFlight # {}
    /\ Len(validFiles) = 2
    /\ sliceStart = 2
    /\ \E n \in Names : calls[n] = 2 /\ IsSuccess(outcome[n])

\* C20: the array of the 200 response lists the successful files in the
\* order of the form data, whatever the order in which uploads completed:
\* entry k of the body is the entry of successfulUploads[k], and file names
\* (positions in the form) increase along the array.
C20_OrderPreserved ==
    (Finished /\ response.status = 200) =>
        /\ Len(response.body) = Len(successfulUploads)
        /\ \A k \in DOMAIN response.body :
              response.body[k].src = successfulUploads[k].src
        /\ \A j, k \in DOMAIN successfulUploads :
              j < k => successfulUploads[j].fileName
                         < successfulUploads[k].fileName

\* both files of one slice are stored, the first only at its second attempt
C20_Witness ==
    /\ Finished
    /\ response.status = 200
    /\ Len(response.body) = 2
    /\ concurrencyLimit = 4
    /\ Len(hist[1]) = 2
    /\ Len(hist[2]) = 1
    /\ response.body[1].src.fileId = 12
    /\ response.body[2].src.fileId = 21

\* the concurrency-limited handler dispatched files: it alone fills
\* validFiles
LimitedRun == validFiles # <<>>

\* the simple handler dispatched files: calls were made with no validFiles
SimpleRun == validFiles = <<>> /\ \E n \in Names : calls[n] > 0

\* C21: when some file passes pre-validation and every dispatched file ends
\* in failure, the concurrency-limited handler answers 200 with an empty
\* array and issues no kv put; the simple handler, when every file it
\* dispatched ends without a record, answers 500 'All file uploads failed'.
C21_AllFailedStatus ==
    Finished =>
        /\ (LimitedRun /\ \A n \in Dispatched : IsFailure(outcome[n])) =>
              /\ response.status = 200
              /\ response.body = <<>>
              /\ kvPuts = <<>>
        /\ (SimpleRun /\ \A n \in Names : outcome[n] = Null) =>
              /\ response.status = 500
              /\ response.error = "All file uploads failed"

C21_Witness ==
    /\ Finished
    /\ LimitedRun
    /\ Len(files) = 2
    /\ Len(validFiles) = 1
    /\ \A n \in Dispatched : IsFailure(outcome[n]) /\ calls[n] = 2
    /\ response.status = 200
    /\ response.body = <<>>

====
